---- MODULE Spec2Model ----
(***************************************************************************)
(* Billing Scrubber Pro (src/App.py): the code normaliser clean_code, the  *)
(* master loader load_master_data and the scrubbing engine run_validation. *)
(*                                                                         *)
(* Text is modelled as a sequence of one-character strings, so that        *)
(* str.strip, str.split, str.upper, str.isdigit and str.zfill are computed *)
(* character by character as Python computes them.  A spreadsheet cell is  *)
(* a record [t, v, s]: t = "nan" (missing), "int" (v), "float" (v whole    *)
(* part, s fractional digits) or "str" (s).                                *)
(***************************************************************************)
EXTENDS Integers, Sequences, FiniteSets, TLC

VARIABLES
    val, once, twice, cpc,                 \* clean_code applied and re-applied
    uploaded_file, index, st_error, lpc,   \* load_master_data
    data, col_names, row, results, rejection_reasons, exception, pc   \* run_validation

cleanVars == <<val, once, twice, cpc>>
loadVars == <<uploaded_file, index, st_error, lpc>>
rvVars == <<data, col_names, row, results, rejection_reasons, exception, pc>>
vars == <<val, once, twice, cpc, uploaded_file, index, st_error, lpc,
          data, col_names, row, results, rejection_reasons, exception, pc>>

-----------------------------------------------------------------------------
(* Bounds *)

MaxLen == 5

MaxRows == 1

-----------------------------------------------------------------------------
(* Cells and text *)

NaN == [t |-> "nan", v |-> 0, s |-> <<>>]

IntCell(n) == [t |-> "int", v |-> n, s |-> <<>>]

FloatCell(n, frac) == [t |-> "float", v |-> n, s |-> frac]

StrCell(chars) == [t |-> "str", v |-> 0, s |-> chars]

Digits == <<"0", "1", "2", "3", "4", "5", "6", "7", "8", "9">>

LowerCase == <<"a", "b", "c", "d", "e", "f", "g", "h", "i", "j", "k", "l", "m",
               "n", "o", "p", "q", "r", "s", "t", "u", "v", "w", "x", "y", "z">>

UpperCase == <<"A", "B", "C", "D", "E", "F", "G", "H", "I", "J", "K", "L", "M",
               "N", "O", "P", "Q", "R", "S", "T", "U", "V", "W", "X", "Y", "Z">>

Range(f) == {f[i] : i \in DOMAIN f}

\* pd.isna(val) on a scalar cell
isna(c) == c.t = "nan"

RECURSIVE IntToStr(_)
\* str(n) for an integer n
IntToStr(n) ==
    IF n < 0 THEN <<"-">> \o IntToStr(0 - n)
    ELSE IF n < 10 THEN <<Digits[n + 1]>>
    ELSE IntToStr(n \div 10) \o <<Digits[(n % 10) + 1]>>

\* str(val) for a non-missing cell: a float prints its fraction ("59.0")
str(c) ==
    CASE c.t = "int" -> IntToStr(c.v)
      [] c.t = "float" -> IntToStr(c.v) \o <<".">> \o c.s
      [] c.t = "str" -> c.s
      [] OTHER -> <<"n", "a", "n">>

IsSpace(ch) == ch = " "

RECURSIVE lstrip(_)
lstrip(s) == IF s # <<>> /\ IsSpace(Head(s)) THEN lstrip(Tail(s)) ELSE s

RECURSIVE rstrip(_)
rstrip(s) ==
    IF s # <<>> /\ IsSpace(s[Len(s)]) THEN rstrip(SubSeq(s, 1, Len(s) - 1)) ELSE s

\* str.strip()
strip(s) == rstrip(lstrip(s))

\* the upper-case letter of each lower-case letter
UpperOf ==
    [ch \in Range(LowerCase) |-> UpperCase[CHOOSE i \in DOMAIN LowerCase : LowerCase[i] = ch]]

UpperChar(ch) == IF ch \in DOMAIN UpperOf THEN UpperOf[ch] ELSE ch

\* str.upper()
upper(s) == [i \in DOMAIN s |-> UpperChar(s[i])]

DigitChars == Range(Digits)

\* str.isdigit(): non-empty and every character a digit
isdigit(s) == s # <<>> /\ \A i \in DOMAIN s : s[i] \in DigitChars

RECURSIVE zfill(_, _)
\* str.zfill(width) on a string of digits
zfill(s, width) == IF Len(s) >= width THEN s ELSE zfill(<<"0">> \o s, width)

RECURSIVE SplitDotFirst(_)
\* s.split('.')[0]: the text before the first dot
SplitDotFirst(s) ==
    IF s = <<>> \/ Head(s) = "." THEN <<>> ELSE <<Head(s)>> \o SplitDotFirst(Tail(s))

\* s.rsplit('.', 1)[0]: the text before the last dot
SplitDotLast(s) ==
    IF \E i \in DOMAIN s : s[i] = "."
    THEN SubSeq(s, 1, (CHOOSE i \in DOMAIN s :
                          s[i] = "." /\ \A k \in (i + 1)..Len(s) : s[k] # ".") - 1)
    ELSE s

\* "sub in s"
Contains(s, sub) ==
    \E i \in 1..(Len(s) - Len(sub) + 1) : SubSeq(s, i, i + Len(sub) - 1) = sub

-----------------------------------------------------------------------------
(* 1. clean_code *)

PadWidth == 5

clean_code_rsplit(c) ==
    IF isna(c) \/ strip(str(c)) = <<>> THEN <<>>
    ELSE LET s == upper(strip(SplitDotLast(str(c))))
         IN  IF isdigit(s) /\ Len(s) < PadWidth THEN zfill(s, PadWidth) ELSE s

clean_code(c) ==
    IF isna(c) \/ strip(str(c)) = <<>> THEN <<>>
    ELSE LET s == upper(strip(SplitDotFirst(str(c))))
         IN  IF isdigit(s) /\ Len(s) < PadWidth THEN zfill(s, PadWidth) ELSE s

\* the characters the text cells given to clean_code are built from
Alphabet == {" ", ".", "1", "a", "A"}

RECURSIVE StringsUpTo(_)
StringsUpTo(n) ==
    IF n = 0 THEN {<<>>}
    ELSE LET shorter == StringsUpTo(n - 1)
         IN  shorter \cup {Append(s, ch) : s \in {x \in shorter : Len(x) = n - 1},
                                            ch \in Alphabet}

CleanInputs ==
    {NaN} \cup {StrCell(s) : s \in StringsUpTo(MaxLen)}
          \cup {IntCell(n) : n \in {0, 100, 11045, 123456}}
          \cup {FloatCell(n, f) : n \in {100, 11045}, f \in {<<"0">>, <<"2", "5">>}}

NoText == <<"?">>

CleanStart ==
    /\ val \in CleanInputs
    /\ once = NoText
    /\ twice = NoText
    /\ cpc = "input"

\* code = clean_code(val)
CleanOnce ==
    /\ cpc = "input"
    /\ once' = clean_code(val)
    /\ cpc' = "once"
    /\ UNCHANGED <<val, twice>>

\* clean_code(code): the normaliser applied to its own result
CleanTwice ==
    /\ cpc = "once"
    /\ twice' = clean_code(StrCell(once))
    /\ cpc' = "twice"
    /\ UNCHANGED <<val, once>>

-----------------------------------------------------------------------------
(* 2. load_master_data *)

CodeA == <<"9", "9", "2", "1", "3">>

CodeB == <<"1", "1", "0", "4", "5">>

MUE_Edits == <<"M", "U", "E", "_", "E", "d", "i", "t", "s">>

NCCI_Edits == <<"N", "C", "C", "I", "_", "E", "d", "i", "t", "s">>

CPT_Master == <<"C", "P", "T", "_", "M", "a", "s", "t", "e", "r">>

\* A sheet is [name, ncols, rows]; a row is a sequence of ncols cells.
Sheet(name, ncols, rows) == [name |-> name, ncols |-> ncols, rows |-> rows]

None == <<>>

Some(x) == <<x>>

\* a Python dict built from a sequence of (key, value) pairs: the last pair wins
DictOf(pairs) ==
    [k \in {pairs[i][1] : i \in DOMAIN pairs} |->
        pairs[CHOOSE i \in DOMAIN pairs :
                 pairs[i][1] = k /\ \A j \in (i + 1)..Len(pairs) : pairs[j][1] # k][2]]

sheet_names(xls) == {xls.sheets[i].name : i \in DOMAIN xls.sheets}

read_excel(xls, name) ==
    xls.sheets[CHOOSE i \in DOMAIN xls.sheets : xls.sheets[i].name = name]

\* pd.DataFrame(): no rows, no columns
EmptyFrame == Sheet(<<>>, 0, <<>>)

\* DataFrame.empty: an axis of length 0
empty(df) == df.ncols = 0 \/ df.rows = <<>>

\* lines 25-29: every non-missing cell of every sheet, normalised
all_valid_codes(xls) ==
    UNION {UNION {{clean_code(line[c]) : c \in {k \in DOMAIN line : ~isna(line[k])}} :
                     line \in Range(sh.rows)} :
              sh \in Range(xls.sheets)}

\* line 35
mue_map(mue_df) ==
    IF empty(mue_df) THEN <<>>
    ELSE DictOf([r \in DOMAIN mue_df.rows |->
                    <<clean_code(mue_df.rows[r][1]), mue_df.rows[r][2]>>])

\* line 36
ncci_map(ncci_df) ==
    IF empty(ncci_df) THEN <<>>
    ELSE DictOf([r \in DOMAIN ncci_df.rows |->
                    <<<<clean_code(ncci_df.rows[r][1]), clean_code(ncci_df.rows[r][2])>>,
                      str(ncci_df.rows[r][6])>>])

\* what makes the body of the try block raise: the file does not open as a
\* workbook, or a positional column access (iloc[:, 1], r[5]) is out of range
LoadRaises(xls, mue_df, ncci_df) ==
    \/ ~xls.readable
    \/ ~empty(mue_df) /\ mue_df.ncols < 2
    \/ ~empty(ncci_df) /\ ncci_df.ncols < 6

\* the loader without the "if name in xls.sheet_names" guards: reading an
\* absent sheet raises
load_master_data_strict(xls) ==
    IF \/ ~xls.readable
       \/ MUE_Edits \notin sheet_names(xls)
       \/ NCCI_Edits \notin sheet_names(xls)
    THEN None
    ELSE LET mue_df == read_excel(xls, MUE_Edits)
             ncci_df == read_excel(xls, NCCI_Edits)
         IN  IF LoadRaises(xls, mue_df, ncci_df) THEN None
             ELSE Some([valid_cpts |-> all_valid_codes(xls),
                        mue |-> mue_map(mue_df),
                        ncci |-> ncci_map(ncci_df)])

load_master_data(xls) ==
    IF ~xls.readable THEN None
    ELSE LET mue_df == IF MUE_Edits \in sheet_names(xls)
                       THEN read_excel(xls, MUE_Edits) ELSE EmptyFrame
             ncci_df == IF NCCI_Edits \in sheet_names(xls)
                        THEN read_excel(xls, NCCI_Edits) ELSE EmptyFrame
         IN  IF LoadRaises(xls, mue_df, ncci_df) THEN None
             ELSE Some([valid_cpts |-> all_valid_codes(xls),
                        mue |-> mue_map(mue_df),
                        ncci |-> ncci_map(ncci_df)])

NcciRow(c0, c1) == <<c0, c1, NaN, NaN, NaN, IntCell(1)>>

CodeSheets ==
    {Sheet(CPT_Master, 1, rows) :
        rows \in {<<>>, <<<<StrCell(CodeA)>>>>, <<<<IntCell(11045)>>>>,
                  <<<<StrCell(CodeA)>>, <<IntCell(11045)>>>>}}

MueSheets ==
    {Sheet(MUE_Edits, 2, rows) :
        rows \in {<<>>, <<<<StrCell(CodeA), IntCell(2)>>>>,
                  <<<<StrCell(CodeA), IntCell(2)>>, <<StrCell(CodeA), IntCell(3)>>>>,
                  <<<<NaN, IntCell(2)>>, <<FloatCell(11045, <<"0">>), NaN>>>>}}
    \cup {Sheet(MUE_Edits, 1, <<<<StrCell(CodeA)>>>>)}

NcciSheets ==
    {Sheet(NCCI_Edits, 6, rows) :
        rows \in {<<>>, <<NcciRow(IntCell(11045), StrCell(CodeA))>>,
                  <<NcciRow(StrCell(CodeA), StrCell(CodeA)),
                    NcciRow(StrCell(CodeA), IntCell(11045))>>}}
    \cup {Sheet(NCCI_Edits, 2, <<<<IntCell(11045), StrCell(CodeA)>>>>)}

\* the uploaded reference workbooks
Workbooks ==
    {[readable |-> rd, sheets |-> <<cs>> \o mue \o ncci] :
        rd \in BOOLEAN, cs \in CodeSheets,
        mue \in {<<>>} \cup {<<m>> : m \in MueSheets},
        ncci \in {<<>>} \cup {<<n>> : n \in NcciSheets}}

LoadStart ==
    /\ uploaded_file \in Workbooks
    /\ index = None
    /\ st_error = FALSE
    /\ lpc = "uploaded"

\* data = load_master_data(master_file)
LoadMasterData ==
    /\ lpc = "uploaded"
    /\ index' = load_master_data(uploaded_file)
    /\ st_error' = (index' = None)
    /\ lpc' = "loaded"
    /\ UNCHANGED uploaded_file

\* "if data and st.button(...)": the audit starts only with an index
RunAudit ==
    /\ lpc = "loaded"
    /\ index # None
    /\ lpc' = "audit"
    /\ UNCHANGED <<uploaded_file, index, st_error>>

-----------------------------------------------------------------------------
(* 3. run_validation: the row decomposer (lines 50-76) *)

CPT == <<"C", "P", "T">>

UNIT == <<"U", "N", "I", "T">>

DX == <<"D", "X">>

MODIFIER == <<"M", "O", "D", "I", "F", "I", "E", "R">>

\* 'CPT' in col.upper()
IsCptCol(col) == Contains(upper(col), CPT)

\* the columns after idx up to the next CPT column (the while loop of line 59)
RECURSIVE SpanEnd(_, _)
SpanEnd(cols, j) ==
    IF j <= Len(cols) /\ ~IsCptCol(cols[j]) THEN SpanEnd(cols, j + 1) ELSE j - 1

\* line 63 with the blank-is-one slip: a blank units cell keeps the default
units_cell_blank_is_one(v) ==
    IF ~isna(v) /\ strip(str(v)) # <<>> THEN v ELSE IntCell(1)

\* line 63: a units cell that is missing or blank counts as 0
units_cell(v) ==
    IF ~isna(v) /\ strip(str(v)) # <<>> THEN v ELSE IntCell(0)

RECURSIVE split(_, _)
\* str.split(): the maximal runs of non-space characters; cur is the run being read
split(s, cur) ==
    IF s = <<>> THEN (IF cur = <<>> THEN <<>> ELSE <<cur>>)
    ELSE IF IsSpace(Head(s))
         THEN (IF cur = <<>> THEN <<>> ELSE <<cur>>) \o split(Tail(s), <<>>)
         ELSE split(Tail(s), Append(cur, Head(s)))

\* str.replace(',', ' ')
ReplaceCommas(s) == [i \in DOMAIN s |-> IF s[i] = "," THEN " " ELSE s[i]]

\* line 67: [m.strip().upper() for m in str(val).replace(',', ' ').split() if m.strip()]
modifier_tokens(v) ==
    LET parts == SelectSeq(split(ReplaceCommas(str(v)), <<>>), LAMBDA m : strip(m) # <<>>)
    IN  [i \in DOMAIN parts |-> upper(strip(parts[i]))]

RECURSIVE gather(_, _, _, _, _)
\* lines 57-68: the loop over the span, from column j to column last; acc is
\* the (units, dxs, mods) gathered so far
gather(cols, r, j, last, acc) ==
    IF j > last THEN acc
    ELSE LET header == upper(cols[j])
             v == r[j]
             next ==
                 IF Contains(header, UNIT)
                 THEN [acc EXCEPT !.units = units_cell(v)]
                 ELSE IF Contains(header, DX) /\ ~isna(v)
                 THEN [acc EXCEPT !.dxs = Append(@, strip(str(v)))]
                 ELSE IF Contains(header, MODIFIER) /\ ~isna(v)
                 THEN [acc EXCEPT !.mods = @ \o modifier_tokens(v)]
                 ELSE acc
         IN  gather(cols, r, j + 1, last, next)

\* line 75 with the modifier test dropped
is_orphan_dx_only(cpt_val, dxs, mods) == cpt_val = <<>> /\ Len(dxs) > 0

\* line 75
is_orphan(cpt_val, dxs, mods) == cpt_val = <<>> /\ (Len(dxs) > 0 \/ Len(mods) > 0)

\* lines 54-76: the group of the CPT column idx
cpt_group(cols, r, idx) ==
    LET cpt_val == clean_code(r[idx])
        g == gather(cols, r, idx + 1, SpanEnd(cols, idx + 1),
                    [units |-> IntCell(1), dxs |-> <<>>, mods |-> <<>>])
    IN  [code |-> cpt_val, units |-> g.units, dxs |-> g.dxs, mods |-> g.mods,
         is_orphan |-> is_orphan(cpt_val, g.dxs, g.mods)]

\* lines 51-76: one group per CPT column, in column order
cpt_groups(cols, r) ==
    LET cptCols == SelectSeq([i \in DOMAIN cols |-> i], LAMBDA i : IsCptCol(cols[i]))
    IN  [k \in DOMAIN cptCols |-> cpt_group(cols, r, cptCols[k])]

-----------------------------------------------------------------------------
(* 3. run_validation: the rule checks (lines 78-119) *)

Msg(kind, limit, billed, other) ==
    [kind |-> kind, limit |-> limit, billed |-> billed, other |-> other]

MissingCpt == Msg("Missing CPT Code (Modifier/DX found)", NaN, NaN, <<>>)

MissingUnits == Msg("Missing Units", NaN, NaN, <<>>)

InvalidCpt == Msg("Invalid CPT", NaN, NaN, <<>>)

MueLimit(limit, billed) == Msg("MUE Limit", limit, billed, <<>>)

BundledWith(other) == Msg("Bundled with", NaN, NaN, other)

Clean(n) == Msg("Clean", NaN, IntCell(n), <<>>)

IsNumber(c) == c.t \in {"int", "float"}

\* line 92: u == 0 (a text value never equals 0)
IsZero(u) == IsNumber(u) /\ u.v = 0 /\ (u.t = "float" => u.s = <<"0">>)

\* line 100: u > limit raises TypeError when text meets a number
GtRaises(u, limit) == (u.t = "str") # (limit.t = "str")

\* line 100: u > limit for numbers; a comparison with NaN is False.  The
\* numbers drawn are integers and whole floats, which compare by v.
Gt(u, limit) == IsNumber(u) /\ IsNumber(limit) /\ u.v > limit.v

RECURSIVE StrToInt(_)
StrToInt(s) ==
    IF s = <<>> THEN 0
    ELSE 10 * StrToInt(SubSeq(s, 1, Len(s) - 1))
         + (CHOOSE d \in 0..9 : Digits[d + 1] = s[Len(s)])

\* line 114: int(u) raises ValueError for text that is not an integer literal
IntRaises(u) == u.t = "str" /\ ~isdigit(strip(u.s))

\* line 114: int(u)
int(u) == IF u.t = "str" THEN StrToInt(strip(u.s)) ELSE u.v

\* line 80
all_codes_in_row(groups) ==
    LET withCode == SelectSeq(groups, LAMBDA g : g.code # <<>>)
    IN  [k \in DOMAIN withCode |-> withCode[k].code]

BypassModifiers == {<<"5", "9">>, <<"2", "5">>, <<"9", "1">>}

\* line 100 with >= for >
mue_check_ge(cpt, u, d) ==
    IF cpt \in DOMAIN d.mue /\ (Gt(u, d.mue[cpt]) \/ (IsNumber(u) /\ u.v = d.mue[cpt].v))
    THEN <<MueLimit(d.mue[cpt], u)>> ELSE <<>>

\* lines 100-101
mue_check(cpt, u, d) ==
    IF cpt \in DOMAIN d.mue /\ Gt(u, d.mue[cpt])
    THEN <<MueLimit(d.mue[cpt], u)>> ELSE <<>>

\* lines 104-106 with the key looked up in the other direction
ncci_check_reversed(cpt, mods, codes, d) ==
    LET hits == SelectSeq(codes, LAMBDA other :
                    /\ <<cpt, other>> \in DOMAIN d.ncci
                    /\ ~\E i \in DOMAIN mods : mods[i] \in BypassModifiers)
    IN  [k \in DOMAIN hits |-> BundledWith(hits[k])]

\* lines 104-106
ncci_check(cpt, mods, codes, d) ==
    LET hits == SelectSeq(codes, LAMBDA other :
                    /\ <<other, cpt>> \in DOMAIN d.ncci
                    /\ ~\E i \in DOMAIN mods : mods[i] \in BypassModifiers)
    IN  [k \in DOMAIN hits |-> BundledWith(hits[k])]

\* lines 96-106 without the else: checks 4 and 5 also run for an invalid code
validity_check_no_skip(cpt, u, mods, codes, d) ==
    (IF cpt \notin d.valid_cpts THEN <<InvalidCpt>> ELSE <<>>)
    \o mue_check(cpt, u, d) \o ncci_check(cpt, mods, codes, d)

\* lines 96-106
validity_check(cpt, u, mods, codes, d) ==
    IF cpt \notin d.valid_cpts THEN <<InvalidCpt>>
    ELSE mue_check(cpt, u, d) \o ncci_check(cpt, mods, codes, d)

\* lines 84-106: the messages of one group
cpt_errors(group, codes, d) ==
    (IF group.is_orphan THEN <<MissingCpt>> ELSE <<>>)
    \o (IF group.code # <<>>
        THEN (IF IsZero(group.units) THEN <<MissingUnits>> ELSE <<>>)
             \o validity_check(group.code, group.units, group.mods, codes, d)
        ELSE <<>>)

\* what the group's iteration raises: TypeError at line 100 (text units
\* compared with a limit), ValueError at line 114 (int of text units)
group_exception(group, codes, d) ==
    IF /\ group.code # <<>>
       /\ group.code \in d.valid_cpts
       /\ group.code \in DOMAIN d.mue
       /\ GtRaises(group.units, d.mue[group.code])
    THEN "TypeError"
    ELSE IF /\ group.code # <<>>
            /\ cpt_errors(group, codes, d) = <<>>
            /\ IntRaises(group.units)
    THEN "ValueError"
    ELSE "none"

EmptyCpt == <<"E", "m", "p", "t", "y", " ", "C", "P", "T">>

\* lines 108-114: the row_summary entries of one group (none for a blank group)
summary_of(group, errs) ==
    IF errs # <<>>
    THEN <<[display_name |-> IF group.code # <<>> THEN group.code ELSE EmptyCpt,
            text |-> errs]>>
    ELSE IF group.code # <<>>
    THEN <<[display_name |-> group.code, text |-> <<Clean(int(group.units))>>]>>
    ELSE <<>>

RECURSIVE Flatten(_)
Flatten(ss) == IF ss = <<>> THEN <<>> ELSE Head(ss) \o Flatten(Tail(ss))

\* lines 108-109, 118 with orphan groups left out of the verdict
row_status_coded_only(groups, errs) ==
    IF \E k \in DOMAIN groups : errs[k] # <<>> /\ groups[k].code # <<>>
    THEN "REJECTED" ELSE "ACCEPTED"

\* lines 108-109, 118: is_rejected becomes True at the first group with messages
row_status(groups, errs) ==
    IF \E k \in DOMAIN groups : errs[k] # <<>> THEN "REJECTED" ELSE "ACCEPTED"

\* lines 50-119: one iteration of the loop over the rows, when nothing raises
res_row(cols, r, d) ==
    LET groups == cpt_groups(cols, r)
        codes == all_codes_in_row(groups)
        errs == [k \in DOMAIN groups |-> cpt_errors(groups[k], codes, d)]
    IN  [row |-> r,
         cpt_groups |-> groups,
         cpt_errors |-> errs,
         Validation_Results |->
             Flatten([k \in DOMAIN groups |-> summary_of(groups[k], errs[k])]),
         Status |-> row_status(groups, errs)]

\* line 112: the codes of the groups with messages, in group order
row_reasons(r) ==
    LET bad == SelectSeq([k \in DOMAIN r.cpt_groups |-> k], LAMBDA k :
                   r.cpt_errors[k] # <<>> /\ r.cpt_groups[k].code # <<>>)
    IN  [i \in DOMAIN bad |-> r.cpt_groups[bad[i]].code]

\* the exception of the first group whose iteration raises
row_exception(cols, r, d) ==
    LET groups == cpt_groups(cols, r)
        codes == all_codes_in_row(groups)
        bad == {k \in DOMAIN groups : group_exception(groups[k], codes, d) # "none"}
    IN  IF bad = {} THEN "none"
        ELSE group_exception(groups[CHOOSE k \in bad : \A n \in bad : k <= n], codes, d)

-----------------------------------------------------------------------------
(* 3. run_validation: the inputs and the loop over the rows *)

CPT1 == <<"C", "P", "T", "1">>

cpt2 == <<"c", "p", "t", "2">>

Units == <<"U", "n", "i", "t", "s">>

DX1 == <<"D", "X", "1">>

Modifier == <<"M", "o", "d", "i", "f", "i", "e", "r">>

Patient == <<"P", "a", "t", "i", "e", "n", "t">>

\* the claim workbook's header rows: the adjacent-column layout, a code column
\* followed by at most one column of each kind before the next code column
Layouts ==
    { <<CPT1, Units>>,
      <<CPT1, cpt2>>,
      <<CPT1, Modifier, cpt2>>,
      <<Patient, CPT1, DX1>>,
      <<CPT1, Units, Modifier>>,
      <<CPT1, Units, cpt2>>,
      <<Patient>> }

CodeCells == {NaN, StrCell(CodeA), IntCell(11045)}

UnitCells == {NaN, IntCell(0), IntCell(2), FloatCell(3, <<"0">>), StrCell(<<"x">>)}

DxCells == {NaN, StrCell(<<"E", "1", "1">>), StrCell(<<" ">>)}

ModifierCells ==
    {NaN, StrCell(<<"l", "t", ",", "2", "5">>), FloatCell(59, <<"0">>), StrCell(<<" ">>)}

\* the values a column's cells are drawn from, by the kind of its header
CellsFor(col) ==
    LET header == upper(col)
    IN  IF Contains(header, CPT) THEN CodeCells
        ELSE IF Contains(header, UNIT) THEN UnitCells
        ELSE IF Contains(header, DX) THEN DxCells
        ELSE IF Contains(header, MODIFIER) THEN ModifierCells
        ELSE {NaN}

RECURSIVE RowsOf(_)
\* the rows of a claim sheet with the given header row
RowsOf(cols) ==
    IF cols = <<>> THEN {<<>>}
    ELSE {Append(r, c) : r \in RowsOf(SubSeq(cols, 1, Len(cols) - 1)),
                           c \in CellsFor(cols[Len(cols)])}

\* the master indexes run_validation is called with
MasterIndexes ==
    {[valid_cpts |-> valid, mue |-> mue, ncci |-> ncci] :
        valid \in {{CodeA, CodeB}, {CodeB}},
        mue \in {<<>>, [c \in {CodeA} |-> IntCell(2)]},
        ncci \in {<<>>,
                  [key \in {<<CodeB, CodeA>>} |-> <<"1">>],
                  [key \in {<<CodeA, CodeB>>, <<CodeA, CodeA>>} |-> <<"1">>]}}

NoRow == <<>>

Init ==
    /\ data \in MasterIndexes
    /\ col_names \in Layouts
    /\ row = NoRow
    /\ results = <<>>
    /\ rejection_reasons = <<>>
    /\ exception = "none"
    /\ pc = "rows"
    /\ val = NaN /\ once = NoText /\ twice = NoText /\ cpc = "idle"
    /\ uploaded_file = None /\ index = None /\ st_error = FALSE /\ lpc = "idle"

\* lines 49-119: one iteration of "for i, row in df.iterrows()" that completes
ValidateRow ==
    /\ pc = "rows"
    /\ Len(results) < MaxRows
    /\ \E next_row \in RowsOf(col_names) :
          /\ row_exception(col_names, next_row, data) = "none"
          /\ row' = next_row
          /\ LET r == res_row(col_names, next_row, data)
             IN  /\ results' = Append(results, r)
                 /\ rejection_reasons' = rejection_reasons \o row_reasons(r)
    /\ UNCHANGED <<data, col_names, exception, pc>>

\* lines 100, 114: the iteration raises and run_validation returns nothing
ValidateRowRaises ==
    /\ pc = "rows"
    /\ Len(results) < MaxRows
    /\ \E next_row \in RowsOf(col_names) :
          /\ row_exception(col_names, next_row, data) # "none"
          /\ row' = next_row
          /\ exception' = row_exception(col_names, next_row, data)
    /\ pc' = "raised"
    /\ UNCHANGED <<data, col_names, results, rejection_reasons>>

\* line 121: the loop is over, the table and the reasons are returned
Return ==
    /\ pc = "rows"
    /\ pc' = "returned"
    /\ UNCHANGED <<data, col_names, row, results, rejection_reasons, exception>>

Next ==
    \/ ValidateRow /\ UNCHANGED <<cleanVars, loadVars>>
    \/ ValidateRowRaises /\ UNCHANGED <<cleanVars, loadVars>>
    \/ Return /\ UNCHANGED <<cleanVars, loadVars>>

Spec == Init /\ [][Next]_vars

NextClean ==
    \/ CleanOnce /\ UNCHANGED <<loadVars, rvVars>>
    \/ CleanTwice /\ UNCHANGED <<loadVars, rvVars>>

InitClean ==
    /\ CleanStart
    /\ uploaded_file = None /\ index = None /\ st_error = FALSE /\ lpc = "idle"
    /\ data = None /\ col_names = <<>> /\ row = NoRow /\ results = <<>>
    /\ rejection_reasons = <<>> /\ exception = "none" /\ pc = "idle"

SpecClean == InitClean /\ [][NextClean]_vars

NextLoad ==
    \/ LoadMasterData /\ UNCHANGED <<cleanVars, rvVars>>
    \/ RunAudit /\ UNCHANGED <<cleanVars, rvVars>>

InitLoad ==
    /\ LoadStart
    /\ val = NaN /\ once = NoText /\ twice = NoText /\ cpc = "idle"
    /\ data = None /\ col_names = <<>> /\ row = NoRow /\ results = <<>>
    /\ rejection_reasons = <<>> /\ exception = "none" /\ pc = "idle"

SpecLoad == InitLoad /\ [][NextLoad]_vars

-----------------------------------------------------------------------------
(* The columns of the claim sheet, read off the header row *)

\* the kind of each header, as the chain of tests of lines 53-66 decides it
KindOf ==
    [h \in UNION {Range(l) : l \in Layouts} |->
        IF Contains(upper(h), CPT) THEN "CPT"
        ELSE IF Contains(upper(h), UNIT) THEN "UNIT"
        ELSE IF Contains(upper(h), DX) THEN "DX"
        ELSE IF Contains(upper(h), MODIFIER) THEN "MODIFIER"
        ELSE "OTHER"]

CodeColumns == {j \in DOMAIN col_names : KindOf[col_names[j]] = "CPT"}

\* the code column of the k-th group
GroupColumn(k) ==
    CHOOSE j \in CodeColumns : Cardinality({i \in CodeColumns : i <= j}) = k

\* the columns of the given kind between code column c and the next code column
SpanColumns(c, kind) ==
    {j \in DOMAIN col_names :
        /\ j > c
        /\ KindOf[col_names[j]] = kind
        /\ \A i \in (c + 1)..j : KindOf[col_names[i]] # "CPT"}

UnitColumns(c) == SpanColumns(c, "UNIT")

DxColumns(c) == SpanColumns(c, "DX")

ModifierColumns(c) == SpanColumns(c, "MODIFIER")

Kinds(errs) == {errs[i].kind : i \in DOMAIN errs}

BlankOrZero(c) ==
    \/ isna(c)
    \/ strip(str(c)) = <<>>
    \/ c.t = "int" /\ c.v = 0
    \/ c.t = "float" /\ c.v = 0 /\ c.s = <<"0">>

\* a bypass modifier (59, 25, 91) is written in a modifier cell of c's span
BypassInSpan(rw, c) ==
    \E j \in ModifierColumns(c) :
        ~isna(rw[j]) /\ Range(modifier_tokens(rw[j])) \cap BypassModifiers # {}

\* the non-empty codes billed in the row
CodesBilled(rw) == {clean_code(rw[j]) : j \in CodeColumns} \ {<<>>}

-----------------------------------------------------------------------------
(* C1: every evaluated row is REJECTED exactly when at least one of its code
   groups produced at least one message, and ACCEPTED otherwise (in
   particular when it has no code group); REJECTED rows are the rows whose
   Validation_Results holds an entry that is not a Clean entry. *)
C1_StatusIffMessages ==
    \A i \in DOMAIN results :
        LET r == results[i]
        IN  /\ r.Status \in {"ACCEPTED", "REJECTED"}
            /\ r.Status = "REJECTED" <=> \E k \in DOMAIN r.cpt_errors : r.cpt_errors[k] # <<>>
            /\ r.Status = "REJECTED" <=>
                   \E e \in DOMAIN r.Validation_Results :
                       "Clean" \notin Kinds(r.Validation_Results[e].text)
            /\ r.cpt_groups = <<>> => r.Status = "ACCEPTED"

C1_Witness ==
    \E i \in DOMAIN results :
        /\ results[i].Status = "REJECTED"
        /\ \E k \in DOMAIN results[i].cpt_errors :
               /\ results[i].cpt_errors[k] = <<MissingCpt>>
               /\ \A n \in DOMAIN results[i].cpt_errors :
                      n # k => results[i].cpt_errors[n] = <<>>

(* C2: a group whose non-empty code is not in valid_cpts gets the Invalid CPT
   message and neither an MUE Limit nor a Bundled with message, whatever mue
   and ncci hold for that code. *)
C2_InvalidSkipsLimitAndBundle ==
    \A i \in DOMAIN results :
        \A k \in DOMAIN results[i].cpt_groups :
            LET c == clean_code(results[i].row[GroupColumn(k)])
                errs == results[i].cpt_errors[k]
            IN  (c # <<>> /\ c \notin data.valid_cpts) =>
                    /\ InvalidCpt \in Range(errs)
                    /\ "MUE Limit" \notin Kinds(errs)
                    /\ "Bundled with" \notin Kinds(errs)

C2_Witness ==
    \E i \in DOMAIN results :
        \E k \in DOMAIN results[i].cpt_groups :
            LET g == results[i].cpt_groups[k]
            IN  /\ g.code # <<>>
                /\ g.code \notin data.valid_cpts
                /\ g.code \in DOMAIN data.mue
                /\ IsNumber(g.units) /\ g.units.v > data.mue[g.code].v
                /\ \E o \in CodesBilled(results[i].row) : <<o, g.code>> \in DOMAIN data.ncci
                /\ InvalidCpt \in Range(results[i].cpt_errors[k])

(* C3: for a group with a valid code c and a different non-empty code o billed
   in the same row, "Bundled with o" is among c's messages exactly when (o, c)
   is a key of ncci and no modifier written in c's own span is 59, 25 or 91. *)
C3_BundledIffKeyAndNoBypass ==
    \A i \in DOMAIN results :
        \A k \in DOMAIN results[i].cpt_groups :
            LET rw == results[i].row
                c == clean_code(rw[GroupColumn(k)])
            IN  (c # <<>> /\ c \in data.valid_cpts) =>
                    \A o \in CodesBilled(rw) \ {c} :
                        BundledWith(o) \in Range(results[i].cpt_errors[k])
                        <=> /\ <<o, c>> \in DOMAIN data.ncci
                            /\ ~BypassInSpan(rw, GroupColumn(k))

\* "Bundled with o" is emitted for c although o's own span carries a bypass modifier
C3_Witness ==
    \E i \in DOMAIN results :
        \E k, n \in DOMAIN results[i].cpt_groups :
            LET rw == results[i].row
                c == clean_code(rw[GroupColumn(k)])
                o == clean_code(rw[GroupColumn(n)])
            IN  /\ c # <<>> /\ o # <<>> /\ o # c
                /\ BypassInSpan(rw, GroupColumn(n))
                /\ <<c, o>> \notin DOMAIN data.ncci
                /\ BundledWith(o) \in Range(results[i].cpt_errors[k])

(* C4: a group with a valid code c gets the MUE Limit message exactly when c is
   a key of mue and the billed units are strictly greater than mue[c]; the
   message carries that limit and the billed units. *)
C4_UnitLimitIffStrictlyGreater ==
    \A i \in DOMAIN results :
        \A k \in DOMAIN results[i].cpt_groups :
            LET c == clean_code(results[i].row[GroupColumn(k)])
                u == results[i].cpt_groups[k].units
                errs == results[i].cpt_errors[k]
            IN  (c # <<>> /\ c \in data.valid_cpts) =>
                    /\ "MUE Limit" \in Kinds(errs)
                       <=> (c \in DOMAIN data.mue /\ IsNumber(u) /\ u.v > data.mue[c].v)
                    /\ \A m \in Range(errs) :
                           m.kind = "MUE Limit" => m = MueLimit(data.mue[c], u)

C4_Witness ==
    \E i \in DOMAIN results :
        \E k \in DOMAIN results[i].cpt_groups :
            /\ results[i].cpt_groups[k].code = CodeA
            /\ MueLimit(IntCell(2), FloatCell(3, <<"0">>)) \in Range(results[i].cpt_errors[k])

(* C5: for a group with a non-empty code, a units column in the code's span
   whose cell is 0 or blank yields the Missing Units message; with no units
   column in the span the units are 1 and there is no Missing Units message. *)
C5_MissingUnitsVersusDefault ==
    \A i \in DOMAIN results :
        \A k \in DOMAIN results[i].cpt_groups :
            LET rw == results[i].row
                col == GroupColumn(k)
                errs == results[i].cpt_errors[k]
            IN  clean_code(rw[col]) # <<>> =>
                    /\ (\E j \in UnitColumns(col) : BlankOrZero(rw[j]))
                           => MissingUnits \in Range(errs)
                    /\ UnitColumns(col) = {}
                           => /\ results[i].cpt_groups[k].units = IntCell(1)
                              /\ MissingUnits \notin Range(errs)

\* a code whose units cell is blank is flagged
C5_Witness ==
    \E i \in DOMAIN results :
        \E k \in DOMAIN results[i].cpt_groups :
            /\ clean_code(results[i].row[GroupColumn(k)]) # <<>>
            /\ \E j \in UnitColumns(GroupColumn(k)) : isna(results[i].row[j])
            /\ MissingUnits \in Range(results[i].cpt_errors[k])

(* C6: clean_code is idempotent: normalising a normalised code changes nothing. *)
C6_CleanCodeIdempotent == cpc = "twice" => twice = once

\* a padded code: text with a decimal suffix shorter than five digits
C6_Witness ==
    /\ cpc = "twice"
    /\ val.t = "str"
    /\ \E k \in DOMAIN val.s : val.s[k] = "."
    /\ Len(once) = PadWidth
    /\ once[1] = "0"

-----------------------------------------------------------------------------
(* The reference workbook, read off the uploaded file *)

HasSheet(name) == \E s \in DOMAIN uploaded_file.sheets : uploaded_file.sheets[s].name = name

\* a sheet of that name is there, holds rows and is narrower than the column read
TooNarrow(name, width) ==
    \E s \in DOMAIN uploaded_file.sheets :
        /\ uploaded_file.sheets[s].name = name
        /\ uploaded_file.sheets[s].rows # <<>>
        /\ uploaded_file.sheets[s].ncols < width

(* C7 as claimed: whenever the reference workbook lacks the unit-limit sheet or
   the bundling sheet, load_master_data reports the error and returns None. *)
C7_AbsentSheetFails ==
    (lpc # "uploaded" /\ (~HasSheet(MUE_Edits) \/ ~HasSheet(NCCI_Edits)))
        => (index = None /\ st_error)

(* C7 as amended: load_master_data reports the error and returns None exactly
   when reading raises (the file does not open as a workbook, or a unit-limit
   or bundling sheet that holds rows is narrower than the column read from
   it); a workbook that lacks the unit-limit or the bundling sheet yields an
   index whose mue, respectively ncci, map is empty. *)
C7_NoneIffReadRaises ==
    lpc # "uploaded" =>
        /\ st_error = (index = None)
        /\ index = None <=> \/ ~uploaded_file.readable
                            \/ TooNarrow(MUE_Edits, 2)
                            \/ TooNarrow(NCCI_Edits, 6)
        /\ (index # None /\ ~HasSheet(MUE_Edits)) => index[1].mue = <<>>
        /\ (index # None /\ ~HasSheet(NCCI_Edits)) => index[1].ncci = <<>>

\* a readable workbook with codes but neither rule sheet loads with empty maps
C7_Witness ==
    /\ lpc = "loaded"
    /\ ~HasSheet(MUE_Edits) /\ ~HasSheet(NCCI_Edits)
    /\ index # None
    /\ index[1].valid_cpts = {CodeA, CodeB}
    /\ index[1].mue = <<>> /\ index[1].ncci = <<>>

(* C8: run_validation never raises: every row, whatever its units cell holds,
   is evaluated to a Status and a Validation_Results. *)
C8_NeverRaises == pc # "raised"

(* C9: a valid code c billed in exactly one code column of the row, with no
   bypass modifier in its span, gets no "Bundled with c" message, even when
   (c, c) is a key of ncci. *)
C9_NoSelfPairUnlessBilledTwice ==
    \A i \in DOMAIN results :
        \A k \in DOMAIN results[i].cpt_groups :
            LET rw == results[i].row
                c == clean_code(rw[GroupColumn(k)])
            IN  (/\ c # <<>> /\ c \in data.valid_cpts
                 /\ Cardinality({j \in CodeColumns : clean_code(rw[j]) = c}) = 1
                 /\ ~BypassInSpan(rw, GroupColumn(k)))
                    => BundledWith(c) \notin Range(results[i].cpt_errors[k])

\* unit, modifier or diagnosis data is written in the span of code column c
DataInSpan(rw, c) ==
    \E j \in UnitColumns(c) \cup DxColumns(c) \cup ModifierColumns(c) : ~isna(rw[j])

\* a diagnosis cell is filled, or a modifier cell holds at least one modifier
DxOrModifierInSpan(rw, c) ==
    \/ \E j \in DxColumns(c) : ~isna(rw[j])
    \/ \E j \in ModifierColumns(c) : ~isna(rw[j]) /\ modifier_tokens(rw[j]) # <<>>

(* C10 as claimed: a code column whose cell normalises to the empty code gets
   the Missing CPT Code message, and the row is REJECTED, when unit, modifier
   or diagnosis data is present in its span; with no such data it contributes
   no message. *)
C10_OrphanOnAnyData ==
    \A i \in DOMAIN results :
        \A k \in DOMAIN results[i].cpt_groups :
            LET rw == results[i].row
                col == GroupColumn(k)
            IN  clean_code(rw[col]) = <<>> =>
                    IF DataInSpan(rw, col)
                    THEN /\ MissingCpt \in Range(results[i].cpt_errors[k])
                         /\ results[i].Status = "REJECTED"
                    ELSE results[i].cpt_errors[k] = <<>>

(* C10 as amended: a code column whose cell normalises to the empty code gets
   the Missing CPT Code message, and the row is REJECTED, when its span holds
   a filled diagnosis cell or a modifier cell with at least one modifier; unit
   data alone does not count, and without diagnosis or modifier data the
   position contributes no message and no Validation_Results entry. *)
C10_OrphanOnDxOrModifier ==
    \A i \in DOMAIN results :
        \A k \in DOMAIN results[i].cpt_groups :
            LET rw == results[i].row
                col == GroupColumn(k)
            IN  clean_code(rw[col]) = <<>> =>
                    IF DxOrModifierInSpan(rw, col)
                    THEN /\ results[i].cpt_errors[k] = <<MissingCpt>>
                         /\ results[i].Status = "REJECTED"
                         /\ \E e \in DOMAIN results[i].Validation_Results :
                                results[i].Validation_Results[e] =
                                    [display_name |-> EmptyCpt, text |-> <<MissingCpt>>]
                    ELSE /\ results[i].cpt_errors[k] = <<>>
                         /\ (\A n \in DOMAIN results[i].cpt_errors :
                                results[i].cpt_errors[n] = <<>>)
                                => results[i].Status = "ACCEPTED"

\* an empty code next to a modifier is flagged and the row rejected
C10_Witness ==
    \E i \in DOMAIN results :
        \E k \in DOMAIN results[i].cpt_groups :
            /\ clean_code(results[i].row[GroupColumn(k)]) = <<>>
            /\ \E j \in ModifierColumns(GroupColumn(k)) :
                   modifier_tokens(results[i].row[j]) # <<>> /\ ~isna(results[i].row[j])
            /\ results[i].cpt_errors[k] = <<MissingCpt>>
            /\ results[i].Status = "REJECTED"

====
